---- MODULE Spec2Model ----
(***************************************************************************)
(* Model of the interprete-notepad Electron client:                        *)
(*   - electron-app/public/renderer.js : normalizeFrontend, translate(),   *)
(*     the health probe and the DOM event listeners;                       *)
(*   - electron-app/api.js             : translateText();                  *)
(*   - electron-app/main.js            : backend process and window        *)
(*     lifecycle.                                                          *)
(* Text typed by the user is a sequence of Unicode code points.            *)
(***************************************************************************)
EXTENDS Integers, Sequences, FiniteSets, TLC

----------------------------------------------------------------------------
(* Code points *)
NUL == 0
SOH == 1
SP == 32
LatinE == 101
EAcute == 233
CombAcute == 769
CombDotBelow == 803
EDotBelow == 7865
EnQuad == 8192
EnSpace == 8194
ZWSP == 8203
ZWJ == 8205
BOM == 65279

(* Bounds *)
MaxLen == 3
MaxInFlight == 2

Alphabet == {NUL, SOH, SP, LatinE, EAcute, CombAcute, CombDotBelow, EnQuad, ZWSP, ZWJ, BOM}

Strs(n) == UNION {[1..k -> Alphabet] : k \in 0..n}

----------------------------------------------------------------------------
(* String.prototype.replace(/c/g, "") : delete every occurrence of c *)
RemoveAll(s, c) == SelectSeq(s, LAMBDA x : x # c)

(* WhiteSpace and LineTerminator code points removed by String.prototype.trim *)
IsWhiteSpace(c) ==
    c \in ({9, 10, 11, 12, 13, 32, 160, 5760} \cup (8192..8202)
           \cup {8232, 8233, 8239, 8287, 12288, 65279})

RECURSIVE TrimStart(_)
TrimStart(s) ==
    IF s # <<>> /\ IsWhiteSpace(Head(s)) THEN TrimStart(Tail(s)) ELSE s

RECURSIVE TrimEnd(_)
TrimEnd(s) ==
    IF s # <<>> /\ IsWhiteSpace(s[Len(s)])
    THEN TrimEnd(SubSeq(s, 1, Len(s) - 1))
    ELSE s

Trim(s) == TrimEnd(TrimStart(s))

(* Canonical combining class *)
CCC(c) ==
    IF c = CombAcute THEN 230
    ELSE IF c = CombDotBelow THEN 220
    ELSE 0

(* Full canonical decomposition of one code point *)
Decomp(c) ==
    IF c = EAcute THEN <<LatinE, CombAcute>>
    ELSE IF c = EDotBelow THEN <<LatinE, CombDotBelow>>
    ELSE IF c = EnQuad THEN <<EnSpace>>
    ELSE <<c>>

RECURSIVE Decompose(_)
Decompose(s) ==
    IF s = <<>> THEN <<>> ELSE Decomp(Head(s)) \o Decompose(Tail(s))

(* Canonical ordering: exchange adjacent marks until classes are ascending *)
RECURSIVE Reorder(_)
Reorder(s) ==
    LET bad == {i \in 1..(Len(s) - 1) :
                   CCC(s[i + 1]) > 0 /\ CCC(s[i]) > CCC(s[i + 1])}
    IN  IF bad = {} THEN s
        ELSE LET i == CHOOSE j \in bad : \A k \in bad : j <= k
             IN  Reorder([s EXCEPT ![i] = s[i + 1], ![i + 1] = s[i]])

(* Primary composite of a starter and a following code point, 0 if none *)
Primary(a, b) ==
    IF a = LatinE /\ b = CombAcute THEN EAcute
    ELSE IF a = LatinE /\ b = CombDotBelow THEN EDotBelow
    ELSE 0

(* Canonical composition; st is the index in acc of the last starter *)
RECURSIVE ComposeFrom(_, _, _)
ComposeFrom(acc, st, rest) ==
    IF rest = <<>> THEN acc
    ELSE LET c == Head(rest)
             blocked == st < Len(acc) /\ CCC(acc[Len(acc)]) >= CCC(c)
             p == IF st = 0 THEN 0 ELSE Primary(acc[st], c)
         IN  IF st # 0 /\ ~blocked /\ p # 0
             THEN ComposeFrom([acc EXCEPT ![st] = p], st, Tail(rest))
             ELSE ComposeFrom(Append(acc, c),
                              IF CCC(c) = 0 THEN Len(acc) + 1 ELSE st,
                              Tail(rest))

(* String.prototype.normalize("NFC") *)
NFC(s) == ComposeFrom(<<>>, 0, Reorder(Decompose(s)))

(* Mutant: trim applied before the characters are stripped *)
normalizeFrontend_trimFirst(text) ==
    NFC(RemoveAll(RemoveAll(RemoveAll(Trim(text), NUL), ZWSP), BOM))

(* Mutant: the zero-width space is not stripped *)
normalizeFrontend_keepZWSP(text) ==
    Trim(NFC(RemoveAll(RemoveAll(text, NUL), BOM)))

normalizeFrontend(text) ==
    Trim(NFC(RemoveAll(RemoveAll(RemoveAll(text, NUL), ZWSP), BOM)))

----------------------------------------------------------------------------
(* Strings of the user interface; U+2014 and U+2192 are written in ASCII *)
EmDash == "U+2014"
LabelPrefix == "Idioma detectado: "
BtnIdle == "Traducir U+2192"
BtnBusy == "Traduciendo..."
MsgEmpty == "Escribe algo para traducir."
MsgFallback == "Error al traducir"
MsgCopied == "Copiado al portapapeles"
MsgCopyFailed == "No se pudo copiar"

(* Texts the user can put in the input field *)
InputTexts ==
    { <<>>,
      <<ZWSP, SP>>,
      <<SP, LatinE, ZWSP, CombAcute, BOM>> }

(* A JSON field is the set of its values: {} when the field is missing *)
Truthy(f) == f # {} /\ f # {""}
ValueOf(f) == CHOOSE v \in f : TRUE

(* Bodies of 2xx responses and of 4xx/5xx responses *)
OkPayloads == [translated_text : {{"hola"}}, detected_source : {{"en"}, {""}, {}}]
ErrPayloads == [error : {{"glossary"}, {}}]

(* Messages of the errors thrown by fetch() and by resp.json() *)
MsgNetwork == "Failed to fetch"
MsgParse == "Unexpected end of JSON input"

----------------------------------------------------------------------------
VARIABLES
    (* normalizeFrontend applied on its own *)
    nRaw, nOut, nPrev, nPass,
    (* main.js *)
    appState, backendProcess, winState, pendingEv, mainLog,
    (* renderer.js / api.js *)
    input, output, langLabel, btnDisabled, btnText, useGlossary, clipboard,
    inflight, health, dialog,
    (* whether the result on screen was overtaken by a newer one or was
       requested before the last clear *)
    shownOvertaken, shownPreClear

nvars == <<nRaw, nOut, nPrev, nPass>>
mvars == <<appState, backendProcess, winState, pendingEv, mainLog>>
uivars == <<input, output, langLabel, btnDisabled, btnText, useGlossary,
            clipboard, inflight, health, dialog>>
gvars == <<shownOvertaken, shownPreClear>>
vars == <<nvars, mvars, uivars, gvars>>

(* State of the main process before the app is ready *)
InitMain ==
    /\ appState = "starting"
    /\ backendProcess = 0
    /\ winState = "none"
    /\ pendingEv = {}
    /\ mainLog = <<>>

(* The page as loaded from index.html *)
PageLoaded(in, out, lab, dis, txt, clip, fl, hl, dlg, so, sp) ==
    /\ in = <<>>
    /\ out = ""
    /\ lab = LabelPrefix \o EmDash
    /\ dis = FALSE
    /\ txt = BtnIdle
    /\ clip = ""
    /\ fl = <<>>
    /\ hl = "unsent"
    /\ dlg = ""
    /\ so = FALSE
    /\ sp = FALSE

InitRenderer ==
    /\ PageLoaded(input, output, langLabel, btnDisabled, btnText, clipboard,
                  inflight, health, dialog, shownOvertaken, shownPreClear)
    /\ useGlossary \in {"absent", "checked", "unchecked"}

InitNormIdle ==
    /\ nRaw = <<>>
    /\ nOut = <<>>
    /\ nPrev = <<>>
    /\ nPass = 0

Init == InitMain /\ InitRenderer /\ InitNormIdle

----------------------------------------------------------------------------
(* main.js *)

(* Mutant: the handle is kept after kill() *)
stopBackend_keepHandle ==
    /\ mainLog' = IF backendProcess # 0 THEN Append(mainLog, "kill") ELSE mainLog
    /\ UNCHANGED backendProcess

stopBackend ==
    /\ mainLog' = IF backendProcess # 0 THEN Append(mainLog, "kill") ELSE mainLog
    /\ backendProcess' = 0

(* app.whenReady().then(...): startBackend(); createWindow(); the page loads
   and renderer.js sends GET /health *)
AppReady ==
    /\ appState = "starting"
    /\ appState' = "ready"
    /\ backendProcess' = 1
    /\ mainLog' = mainLog \o <<"spawn", "window">>
    /\ winState' = "open"
    /\ health' = "pending"
    /\ UNCHANGED <<pendingEv, nvars, gvars>>
    /\ UNCHANGED <<input, output, langLabel, btnDisabled, btnText,
                   useGlossary, clipboard, inflight, dialog>>

(* win.on("closed", ...) *)
OnClosed == stopBackend /\ UNCHANGED appState

(* app.on("window-all-closed", ...) *)
OnWindowAllClosed(plat) ==
    /\ stopBackend
    /\ appState' = IF plat # "darwin" THEN "quit" ELSE appState

Platforms == {"darwin", "win32"}

(* The user closes the window: the window and its page are destroyed and
   Electron emits "closed" on the window and "window-all-closed" on the app;
   first is the one whose listener runs first. *)
CloseWindow(first, plat) ==
    /\ winState = "open"
    /\ winState' = "closed"
    /\ IF first = "closed"
       THEN OnClosed /\ pendingEv' = {"window-all-closed"}
       ELSE OnWindowAllClosed(plat) /\ pendingEv' = {"closed"}
    /\ PageLoaded(input', output', langLabel', btnDisabled', btnText',
                  clipboard', inflight', health', dialog', shownOvertaken',
                  shownPreClear')
    /\ UNCHANGED <<useGlossary, nvars>>

DeliverClosed ==
    /\ "closed" \in pendingEv
    /\ pendingEv' = pendingEv \ {"closed"}
    /\ OnClosed
    /\ UNCHANGED <<winState, nvars, uivars, gvars>>

DeliverWindowAllClosed(plat) ==
    /\ "window-all-closed" \in pendingEv
    /\ pendingEv' = pendingEv \ {"window-all-closed"}
    /\ OnWindowAllClosed(plat)
    /\ UNCHANGED <<winState, nvars, uivars, gvars>>

----------------------------------------------------------------------------
(* renderer.js *)

(* The page exists and no alert() dialog is blocking its event loop *)
PageLive == winState = "open" /\ dialog = ""

RendererInFlight == {i \in DOMAIN inflight : inflight[i].via = "renderer"}

RemoveAt(s, i) == SubSeq(s, 1, i - 1) \o SubSeq(s, i + 1, Len(s))

(* window.alert(msg): the dialog stays up until the user dismisses it *)
alert(msg) == dialog' = msg

Dismiss ==
    /\ winState = "open"
    /\ dialog # ""
    /\ dialog' = ""
    /\ UNCHANGED <<input, output, langLabel, btnDisabled, btnText,
                   useGlossary, clipboard, inflight, health>>
    /\ UNCHANGED <<nvars, mvars, gvars>>

(* Mutant: a failed health check disables the translate button *)
HealthFail_disables ==
    /\ PageLive
    /\ health = "pending"
    /\ health' = "failed"
    /\ btnDisabled' = TRUE
    /\ UNCHANGED <<input, output, langLabel, btnText,
                   useGlossary, clipboard, inflight, dialog>>
    /\ UNCHANGED <<nvars, mvars, gvars>>

(* fetch(".../health"): the outcome is written to the console only *)
HealthOk ==
    /\ PageLive
    /\ health = "pending"
    /\ health' = "ok"
    /\ UNCHANGED <<input, output, langLabel, btnDisabled, btnText,
                   useGlossary, clipboard, inflight, dialog>>
    /\ UNCHANGED <<nvars, mvars, gvars>>

HealthFail ==
    /\ PageLive
    /\ health = "pending"
    /\ health' = "failed"
    /\ UNCHANGED <<input, output, langLabel, btnDisabled, btnText,
                   useGlossary, clipboard, inflight, dialog>>
    /\ UNCHANGED <<nvars, mvars, gvars>>

(* The user edits the input field *)
TypeInput(t) ==
    /\ PageLive
    /\ input # t
    /\ input' = t
    /\ UNCHANGED <<output, langLabel, btnDisabled, btnText, useGlossary,
                   clipboard, inflight, health, dialog>>
    /\ UNCHANGED <<nvars, mvars, gvars>>

(* The user ticks or unticks the glossary checkbox *)
ToggleGlossary ==
    /\ PageLive
    /\ useGlossary # "absent"
    /\ useGlossary' = IF useGlossary = "checked" THEN "unchecked" ELSE "checked"
    /\ UNCHANGED <<input, output, langLabel, btnDisabled, btnText,
                   clipboard, inflight, health, dialog>>
    /\ UNCHANGED <<nvars, mvars, gvars>>

(* el.useGlossary?.checked ?? true *)
GlossaryFlag == IF useGlossary = "unchecked" THEN "false" ELSE "true"

(* The POST /translate request built by translate() *)
RendererRequest(text) ==
    [via |-> "renderer", text |-> text, use_glossary |-> GlossaryFlag,
     overtaken |-> FALSE, preClear |-> FALSE]

(* Mutant: the raw text is sent, without validation *)
translate_raw ==
    /\ Len(inflight) < MaxInFlight
    /\ btnDisabled' = TRUE
    /\ btnText' = BtnBusy
    /\ inflight' = Append(inflight, RendererRequest(input))
    /\ UNCHANGED <<input, output, langLabel, useGlossary, clipboard,
                   health, dialog>>
    /\ UNCHANGED <<nvars, mvars, gvars>>

(* translate(), up to the first await *)
translate ==
    LET text == normalizeFrontend(input) IN
    IF text = <<>>
    THEN /\ alert(MsgEmpty)
         /\ UNCHANGED <<input, output, langLabel, btnDisabled, btnText,
                        useGlossary, clipboard, inflight, health>>
         /\ UNCHANGED <<nvars, mvars, gvars>>
    ELSE /\ Len(inflight) < MaxInFlight
         /\ btnDisabled' = TRUE
         /\ btnText' = BtnBusy
         /\ inflight' = Append(inflight, RendererRequest(text))
         /\ UNCHANGED <<input, output, langLabel, useGlossary, clipboard,
                        health, dialog>>
         /\ UNCHANGED <<nvars, mvars, gvars>>

(* click on translateBtn; a disabled button dispatches no click *)
ClickTranslate ==
    /\ PageLive
    /\ ~btnDisabled
    /\ translate

(* keydown on the input field with Ctrl/Meta + Enter *)
CtrlEnter ==
    /\ PageLive
    /\ translate

(* finally { ... } of translate() *)
Finally ==
    /\ btnDisabled' = FALSE
    /\ btnText' = BtnIdle

(* Text of the language label for a 2xx body *)
LabelFor_nullish(p) ==
    LabelPrefix \o
        (IF p.detected_source # {} THEN ValueOf(p.detected_source) ELSE EmDash)

LabelFor(p) ==
    LabelPrefix \o
        (IF Truthy(p.detected_source) THEN ValueOf(p.detected_source)
         ELSE EmDash)

(* translate() after the awaits, 2xx response with body p to request i *)
SettleOk(i, p) ==
    /\ PageLive
    /\ i \in RendererInFlight
    /\ output' = ValueOf(p.translated_text)
    /\ langLabel' = LabelFor(p)
    /\ Finally
    /\ shownOvertaken' = inflight[i].overtaken
    /\ shownPreClear' = inflight[i].preClear
    /\ inflight' = RemoveAt([j \in DOMAIN inflight |->
                               IF j < i /\ inflight[j].via = "renderer"
                               THEN [inflight[j] EXCEPT !.overtaken = TRUE]
                               ELSE inflight[j]], i)
    /\ UNCHANGED <<input, useGlossary, clipboard, health, dialog>>
    /\ UNCHANGED <<nvars, mvars>>

(* Mutant: the catch branch blanks the output field *)
Catch_blanks(i, msg) ==
    /\ alert("Error: " \o msg)
    /\ Finally
    /\ inflight' = RemoveAt(inflight, i)
    /\ output' = ""
    /\ UNCHANGED <<input, langLabel, useGlossary, clipboard, health>>
    /\ UNCHANGED <<nvars, mvars, gvars>>

(* The catch branch of translate(): alert, then finally *)
Catch(i, msg) ==
    /\ alert("Error: " \o msg)
    /\ Finally
    /\ inflight' = RemoveAt(inflight, i)
    /\ UNCHANGED <<input, output, langLabel, useGlossary, clipboard, health>>
    /\ UNCHANGED <<nvars, mvars, gvars>>

(* non-2xx response with body e *)
SettleHttpError(i, e) ==
    /\ PageLive
    /\ i \in RendererInFlight
    /\ Catch(i, IF Truthy(e.error) THEN ValueOf(e.error) ELSE MsgFallback)

(* fetch() rejects *)
SettleNetworkFail(i) ==
    /\ PageLive
    /\ i \in RendererInFlight
    /\ Catch(i, MsgNetwork)

(* resp.json() rejects *)
SettleUnparsable(i) ==
    /\ PageLive
    /\ i \in RendererInFlight
    /\ Catch(i, MsgParse)

(* click on clearBtn *)
Clear ==
    /\ PageLive
    /\ input' = <<>>
    /\ output' = ""
    /\ langLabel' = LabelPrefix \o EmDash
    /\ shownOvertaken' = FALSE
    /\ shownPreClear' = FALSE
    /\ inflight' = [j \in DOMAIN inflight |->
                      IF inflight[j].via = "renderer"
                      THEN [inflight[j] EXCEPT !.preClear = TRUE]
                      ELSE inflight[j]]
    /\ UNCHANGED <<btnDisabled, btnText, useGlossary, clipboard, health,
                   dialog>>
    /\ UNCHANGED <<nvars, mvars>>

(* click on copyBtn *)
Copy(ok) ==
    /\ PageLive
    /\ clipboard' = IF ok THEN output ELSE clipboard
    /\ alert(IF ok THEN MsgCopied ELSE MsgCopyFailed)
    /\ UNCHANGED <<input, output, langLabel, btnDisabled, btnText,
                   useGlossary, inflight, health>>
    /\ UNCHANGED <<nvars, mvars, gvars>>

----------------------------------------------------------------------------
(* api.js *)

(* translateText(text), up to the first await *)
translateText(t) ==
    /\ PageLive
    /\ Len(inflight) < MaxInFlight
    /\ inflight' = Append(inflight,
           [via |-> "api", text |-> t, use_glossary |-> "omitted",
            overtaken |-> FALSE, preClear |-> FALSE])
    /\ UNCHANGED <<input, output, langLabel, btnDisabled, btnText,
                   useGlossary, clipboard, health, dialog>>
    /\ UNCHANGED <<nvars, mvars, gvars>>

(* translateText(text) returns the body or throws: no state of the page
   is touched *)
SettleApi(i) ==
    /\ PageLive
    /\ i \in DOMAIN inflight
    /\ inflight[i].via = "api"
    /\ inflight' = RemoveAt(inflight, i)
    /\ UNCHANGED <<input, output, langLabel, btnDisabled, btnText,
                   useGlossary, clipboard, health, dialog>>
    /\ UNCHANGED <<nvars, mvars, gvars>>

----------------------------------------------------------------------------
Next ==
    \/ AppReady
    \/ \E first \in {"closed", "window-all-closed"}, plat \in Platforms :
          CloseWindow(first, plat)
    \/ DeliverClosed
    \/ \E plat \in Platforms : DeliverWindowAllClosed(plat)
    \/ HealthOk
    \/ HealthFail
    \/ \E t \in InputTexts : TypeInput(t)
    \/ ToggleGlossary
    \/ ClickTranslate
    \/ CtrlEnter
    \/ \E i \in DOMAIN inflight, p \in OkPayloads : SettleOk(i, p)
    \/ \E i \in DOMAIN inflight, e \in ErrPayloads : SettleHttpError(i, e)
    \/ \E i \in DOMAIN inflight : SettleNetworkFail(i)
    \/ \E i \in DOMAIN inflight : SettleUnparsable(i)
    \/ Clear
    \/ \E ok \in BOOLEAN : Copy(ok)
    \/ Dismiss
    \/ \E t \in InputTexts : translateText(t)
    \/ \E i \in DOMAIN inflight : SettleApi(i)

Spec == Init /\ [][Next]_vars

----------------------------------------------------------------------------
(* normalizeFrontend applied once and twice to an arbitrary string *)
InitN ==
    /\ nRaw \in Strs(MaxLen)
    /\ nOut = nRaw
    /\ nPrev = nRaw
    /\ nPass = 0
    /\ InitMain
    /\ InitRenderer
    /\ useGlossary = "checked"

ApplyNormalize ==
    /\ nPass < 2
    /\ nPrev' = nOut
    /\ nOut' = normalizeFrontend(nOut)
    /\ nPass' = nPass + 1
    /\ UNCHANGED <<nRaw, mvars, uivars, gvars>>

NextN == ApplyNormalize

SpecN == InitN /\ [][NextN]_vars

----------------------------------------------------------------------------
(* Helpers of the properties *)
Chars(s) == {s[i] : i \in DOMAIN s}
IsControl(c) == c < 32 \/ (c >= 127 /\ c <= 159)
IsZeroWidth(c) == c \in {8203, 8204, 8205, 8288, 65279}
IsNFC(s) == NFC(s) = s
NoEdgeSpace(s) ==
    s = <<>> \/ (~IsWhiteSpace(s[1]) /\ ~IsWhiteSpace(s[Len(s)]))
Count(log, e) == Cardinality({i \in DOMAIN log : log[i] = e})

(* C1: normalizing an already normalized string changes nothing. *)
C1_Idempotent == nPass = 2 => nOut = nPrev

(* C1 witness: stripping U+200B brought e next to a combining acute, which
   NFC composed, and the second pass has run. *)
C1_Witness ==
    nPass = 2 /\ nRaw = <<LatinE, ZWSP, CombAcute>> /\ nOut = <<EAcute>>

(* C2 as stated: the result of normalization has no NUL, no control
   character, no zero-width character, no BOM, is in NFC and is trimmed. *)
C2_Original ==
    nPass >= 1 =>
        /\ \A c \in Chars(nOut) : c # NUL /\ ~IsControl(c) /\ ~IsZeroWidth(c)
        /\ IsNFC(nOut)
        /\ NoEdgeSpace(nOut)

(* C2 amended: the result of normalization has no NUL, no U+200B and no
   U+FEFF, is in NFC and has no leading or trailing whitespace. *)
C2_Amended ==
    nPass >= 1 =>
        /\ \A c \in Chars(nOut) : c \notin {NUL, ZWSP, BOM}
        /\ IsNFC(nOut)
        /\ NoEdgeSpace(nOut)

(* C2 witness: U+200B and the trailing space are gone, U+0001 is kept. *)
C2_Witness == nPass = 1 /\ nRaw = <<SOH, ZWSP, SP>> /\ nOut = <<SOH>>

(* C3: when translate() runs on a text that is empty after normalization,
   no request is sent, the user gets the alert, and the button, the output
   field and the language label are left as they were. *)
C3_EmptyRejected ==
    [][ (normalizeFrontend(input) = <<>> /\ (ClickTranslate \/ CtrlEnter))
        => /\ inflight' = inflight
           /\ dialog' = MsgEmpty
           /\ UNCHANGED <<btnDisabled, btnText, output, langLabel>> ]_vars

(* C3 witness: a whitespace-only text was rejected with the alert. *)
C3_Witness ==
    dialog = MsgEmpty /\ input = <<ZWSP, SP>> /\ inflight = <<>> /\ ~btnDisabled

(* C4: a request that ends in a network failure, an unparsable body or a
   non-2xx response leaves the output field, the language label and the
   input field as they were and shows the error string of the response or
   a fallback; the output field and the label are written by translate()
   only on a 2xx response, both in the same step. *)
C4_FailureAtomic ==
    [][ /\ \A i \in DOMAIN inflight :
            /\ \A e \in ErrPayloads :
                 SettleHttpError(i, e) =>
                    /\ UNCHANGED <<output, langLabel, input>>
                    /\ dialog' = "Error: " \o
                          (IF e.error \in {{}, {""}} THEN MsgFallback
                           ELSE ValueOf(e.error))
            /\ (SettleNetworkFail(i) \/ SettleUnparsable(i)) =>
                    /\ UNCHANGED <<output, langLabel, input>>
                    /\ dialog' \in {"Error: " \o MsgNetwork,
                                    "Error: " \o MsgParse}
        /\ (winState' = "open" /\ Len(inflight') < Len(inflight)
              /\ (output' # output \/ langLabel' # langLabel))
            => \E i \in DOMAIN inflight, p \in OkPayloads :
                 /\ SettleOk(i, p)
                 /\ output' = ValueOf(p.translated_text)
      ]_vars

(* C4 witness: a request failed with the error string of the response while
   an earlier result is still on screen and the text is still in the input. *)
C4_Witness ==
    /\ dialog = "Error: glossary"
    /\ output = "hola"
    /\ langLabel = LabelPrefix \o "en"
    /\ input = <<SP, LatinE, ZWSP, CombAcute, BOM>>

(* C5 as stated: no POST /translate is sent before GET /health has
   completed successfully. *)
C5_Original == RendererInFlight # {} => health = "ok"

(* C5 amended: the completion of GET /health, successful or not, changes
   nothing of the page: the button, the requests in flight and the fields
   stay as they are. *)
C5_HealthOnlyLogged ==
    [][ (health = "pending" /\ health' \in {"ok", "failed"})
        => UNCHANGED <<btnDisabled, btnText, inflight, input, output,
                       langLabel, dialog, useGlossary>> ]_vars

(* C5 witness: the health check has failed, the button is enabled again
   and a request of translate() is in flight. *)
C5_Witness ==
    health = "failed" /\ RendererInFlight # {} /\ ~btnDisabled

(* The request sent by a step, if the step sends one *)
Sends(r) ==
    /\ Len(inflight') = Len(inflight) + 1
    /\ r = inflight'[Len(inflight')]

SentRequests == {inflight'[i] : i \in DOMAIN inflight'}

(* C6 as stated: every POST /translate request, from translate() and from
   translateText(), carries a non-empty normalized text and a use_glossary
   equal to the checkbox state (true without checkbox or when omitted). *)
C6_Original ==
    [][ \A r \in SentRequests :
          Sends(r) =>
            /\ r.text # <<>>
            /\ normalizeFrontend(r.text) = r.text
            /\ r.use_glossary \in
                  {"omitted", IF useGlossary = "unchecked" THEN "false"
                              ELSE "true"} ]_vars

(* C6 amended: every request sent by translate() carries a non-empty
   normalized text and a boolean use_glossary equal to the checkbox state
   (true without checkbox); a request sent by translateText() omits
   use_glossary. *)
C6_RendererRequests ==
    [][ \A r \in SentRequests :
          Sends(r) =>
            /\ r.via = "renderer" =>
                 /\ r.text # <<>>
                 /\ normalizeFrontend(r.text) = r.text
                 /\ r.use_glossary =
                       (IF useGlossary = "unchecked" THEN "false" ELSE "true")
            /\ r.via = "api" => r.use_glossary = "omitted" ]_vars

(* C6 witness: translate() has sent the normalized form of a text that
   needed stripping, composing and trimming, with the checkbox unticked. *)
C6_Witness ==
    /\ input = <<SP, LatinE, ZWSP, CombAcute, BOM>>
    /\ useGlossary = "unchecked"
    /\ \E i \in DOMAIN inflight :
          /\ inflight[i].via = "renderer"
          /\ inflight[i].text = <<EAcute>>
          /\ inflight[i].use_glossary = "false"

(* C7: on a 2xx response the language label shows the detected_source of
   the response as it is, and the unknown marker when the field is missing
   or empty. *)
C7_DetectedSource ==
    [][ \A i \in DOMAIN inflight, p \in OkPayloads :
          SettleOk(i, p) =>
             langLabel' = LabelPrefix \o
                (IF p.detected_source \in {{}, {""}} THEN EmDash
                 ELSE ValueOf(p.detected_source)) ]_vars

(* C7 witness: a 2xx response reporting "en" has been shown. *)
C7_Witness ==
    langLabel = LabelPrefix \o "en" /\ output = "hola" /\ inflight = <<>>

(* C8: the translate button is disabled and labelled "Traduciendo..."
   exactly when a request of translate() is in flight, and at most one is
   in flight at a time. *)
C8_ButtonTracksInFlight ==
    winState = "open" =>
        /\ btnDisabled <=> RendererInFlight # {}
        /\ btnDisabled <=> btnText = BtnBusy
        /\ Cardinality(RendererInFlight) <= 1

(* C9: once no request is in flight the output field does not show a result
   that a newer result had already replaced, and the output never shows
   the result of a request submitted before the last clear. *)
C9_NoStaleOutput ==
    /\ RendererInFlight = {} => ~shownOvertaken
    /\ ~shownPreClear

(* C10: the backend is spawned exactly once, at app ready and before the
   window is created; whenever no window is open backendProcess is null and
   a spawned backend has been sent kill; kill is sent at most once. *)
C10_BackendLifecycle ==
    /\ Count(mainLog, "spawn") = (IF appState = "starting" THEN 0 ELSE 1)
    /\ \A i \in DOMAIN mainLog :
          mainLog[i] = "window" =>
             \E j \in 1..(i - 1) : mainLog[j] = "spawn"
    /\ winState # "open" =>
          /\ backendProcess = 0
          /\ Count(mainLog, "kill") = Count(mainLog, "spawn")
    /\ Count(mainLog, "kill") <= 1

(* C10 witness: the window is closed and both listeners have run. *)
C10_Witness ==
    /\ winState = "closed"
    /\ pendingEv = {}
    /\ mainLog = <<"spawn", "window", "kill">>

====
